---- MODULE Spec2Model ----
(***************************************************************************)
(* TAPFed cross-chain relayer (python/chain_bridge/relayer_full.py and     *)
(* relayer_runner.py): a polling loop that mirrors the latest round of     *)
(* the DKGRegistry on chain A to chain B, then (relayer_full only) posts   *)
(* the CipherStore records of that round that chain B does not hold yet.   *)
(*                                                                         *)
(* The model is the loop at the granularity of its remote calls: every     *)
(* RPC read, every broadcast and every receipt wait is one step that may   *)
(* return or raise.  Chain A changes under the relayer (rounds are         *)
(* registered, ciphers are posted); chain B changes through the relayer's  *)
(* transactions.  The process may be killed and started again.             *)
(*                                                                         *)
(* Eight specifications of the relayer share the actions:                                 *)
(*   Spec      the loop against a live chain A, with failures and restarts *)
(*   StaleSpec Spec, where a read of chain A's lastRound() may be stale    *)
(*   FairSpec  Spec, with the loop scheduled fairly and calls that do not  *)
(*             fail forever                                                *)
(*   ObservedSpec FairSpec, where chain A moves to its next round only     *)
(*             after the relayer has read the current one                  *)
(*   PassSpec  the loop against a frozen chain A holding one round, for    *)
(*             every record list and every cid set already on chain B      *)
(*   PassFailSpec PassSpec, with calls that may raise                      *)
(*   ConfigSpec Spec, where a process may be started without a variable    *)
(*             it needs                                                    *)
(*   PendingSpec Spec, where a transaction may stay pending on chain B     *)
(*             after its broadcast                                         *)
(* and one is of the one-shot script python/scripts/copy_ciphers_A_to_B.py:*)
(*   CopySpec  the script run once for a round of a frozen chain A, for    *)
(*             every record list and every cid set already on chain B      *)
(***************************************************************************)
EXTENDS Integers, Sequences, FiniteSets, TLC

\* ------------------------------------------------------------------ bounds
MaxRound == 2          \* round ids on chain A are 1..MaxRound
MaxCiphers == 2        \* records per round in chain A's CipherStore (Spec)
MaxPosts == 2          \* accepted postCipher transactions per (round, cid) on B
PassLen == 3           \* records of the round in PassSpec
MaxPending == 2        \* relayer transactions pending on chain B (PendingSpec)
MaxNonce0 == 2         \* transaction count of the account when the copy starts

Rounds == 1..MaxRound
Cids == {"c1"}
PassCids == {"c1", "c2", "c3"}
Programs == {"full", "runner"}

VARIABLES
    program,       \* which script runs: relayer_full.py or relayer_runner.py
    pc,            \* position of the process
    last_seen,     \* the watermark
    rA,            \* candidate: chain A's lastRound() as read in this cycle
    root, cid,     \* info[2], info[3] of getRoundInfo(rA)
    ciphers,       \* csA.getCiphers(rA) as read in this cycle
    existing_set,  \* cids believed to be on chain B for rA
    idx,           \* position of the for loop over ciphers (1-based)
    A_lastRound,   \* chain A DKGRegistry.lastRound
    A_ciphers,     \* chain A CipherStore: round -> sequence of cids
    B_lastRound,   \* chain B DKGRegistry.lastRound
    B_rounds,      \* chain B DKGRegistry: round -> <<root, cid>> or NoRound
    B_ciphers,     \* chain B CipherStore: round -> cid -> accepted posts
    wm0,           \* history: the watermark when the current cycle began
    subs,          \* history: transactions broadcast in the current cycle
    regReceipt,    \* history: registerRound receipt received in this cycle
    dst0,          \* history: what the listing of chain B gave in this cycle
    raisedAt,      \* history: the position whose call raised in this cycle
    reverted,      \* history: transactions of this cycle that chain B mined
                   \*          with a failure status
    passSnap,      \* history: <<round, source records>> of the last cycle
                   \*          that ran to its end, or NoPass
    hiPass,        \* history: highest round whose cipher pass ran to its end
    pendingRound,  \* history: round whose cycle raised after its registry
                   \*          receipt, 0 once a cycle ran to its end
    skipped,       \* history: rounds a poll jumped over
    startRead,     \* history: how the read of chain B's lastRound() at start
                   \*          ended, "none" once the loop has polled
    exit,          \* NotExited, or <<unset variables, exit status, output>>
                   \* of a process that has ended
    mempool,       \* chain B: the relayer's transactions broadcast, not mined
    receipt,       \* the receipt of the transaction broadcast last exists
    ROUND,         \* copy_ciphers_A_to_B.py: the round to copy
    nonce,         \* copy_ciphers_A_to_B.py: the nonce of the next transaction
    n0             \* history: the transaction count the script read

vars == <<program, pc, last_seen, rA, root, cid, ciphers, existing_set, idx,
          A_lastRound, A_ciphers, B_lastRound, B_rounds, B_ciphers,
          wm0, subs, regReceipt, dst0, raisedAt, reverted, passSnap, hiPass, pendingRound, skipped,
          startRead, exit, mempool, receipt, ROUND, nonce, n0>>

locals == <<root, cid, ciphers, existing_set, idx>>
chainA == <<A_lastRound, A_ciphers>>
chainB == <<B_lastRound, B_rounds, B_ciphers>>
cycleHist == <<wm0, subs, regReceipt, dst0, raisedAt, reverted>>
txpool == <<mempool, receipt>>
script == <<ROUND, nonce, n0>>
runHist == <<passSnap, hiPass, pendingRound, skipped>>

NoRound == <<>>
NoPass == <<"none">>
NoListing == <<"none", {}>>
NoValue == 0
NoCid == ""
NotRaised == "none"
NotExited == <<>>

Max(a, b) == IF a >= b THEN a ELSE b

Range(s) == {s[i] : i \in DOMAIN s}

\* All sequences over S of length at most n.
SeqsUpTo(n, S) == UNION {[1..k -> S] : k \in 0..n}

\* ------------------------------------------------------- chain contents
\* merkleRoot and metadataCID of round r on chain A (opaque values).
RootOf(r) == 100 + r
MetaOf(r) == "meta" \o ToString(r)

\* DKGRegistry.getRoundInfo(r): (initiator, roundId, root, cid, timestamp).
RoundInfo(r) == <<"initiator", r, RootOf(r), MetaOf(r), "ts">>

\* CipherStore.getCiphers(r): entries (poster, roundId, cid, root, timestamp).
CipherEntry(r, c) == <<"poster", r, c, RootOf(r), "ts">>
GetCiphersA(r) == [i \in 1..Len(A_ciphers[r]) |-> CipherEntry(r, A_ciphers[r][i])]

\* The cids chain B holds for round r.
CidsOnB(r) == {c \in DOMAIN B_ciphers[r] : B_ciphers[r][c] > 0}

\* The rounds chain B's registry holds.
RegisteredOnB == {r \in Rounds : B_rounds[r] # NoRound}

\* DKGRegistry.registerRound on chain B: a round that is already registered
\* is rejected (the transaction is mined with a failure status).
RegisterAccepted(r) == B_rounds[r] = NoRound

\* ------------------------------------------------------ pieces of main()
\* lines 52-61: the environment variables main() reads without a default.
ConfigKeys ==
    {"PRIVATE_KEY", "DKG_A_ADDR", "DKG_B_ADDR", "CIPHER_A_ADDR", "CIPHER_B_ADDR"}

\* lines 75-78 (relayer_runner 43-44): the addresses the script converts.
AddressKeys(prog) ==
    IF prog = "full"
       THEN {"DKG_A_ADDR", "DKG_B_ADDR", "CIPHER_A_ADDR", "CIPHER_B_ADDR"}
       ELSE {"DKG_A_ADDR", "DKG_B_ADDR"}

RequiredKeys(prog) == {"PRIVATE_KEY"} \cup AddressKeys(prog)

\* lines 62-64: without PRIVATE_KEY main() prints an ERROR line naming the
\* variable and returns, and the interpreter ends with status 0.
\* lines 75-78: to_checksum_address(None) raises, nothing catches it, and the
\* interpreter prints the traceback and ends with status 1.
ExitOf(unset) ==
    IF "PRIVATE_KEY" \in unset
       THEN <<unset, 0, "error line">>
       ELSE <<unset, 1, "traceback">>

\* lines 86-89: the watermark at process start.
InitialWatermark_NoFallback(ok) == B_lastRound
InitialWatermark(ok) == IF ok THEN B_lastRound ELSE 0

\* line 101: `if rA > last_seen`.
IsNewRound_Geq(cand, wm) == cand >= wm /\ cand # 0
IsNewRound_Neq(cand, wm) == cand # wm
IsNewRound_AndAbsent(cand, wm) == cand > wm /\ B_rounds[cand] = NoRound
IsNewRound(cand, wm) == cand > wm

\* lines 104, 115, 131: the round the cycle mirrors is the candidate itself.
TargetRound_Next(cand, wm) == wm + 1
TargetRound(cand, wm) == cand

\* get_cids_from_cipherstore: entry[2] of every entry (as a set: the caller
\* only ever builds set(existing) from it), [] when the call raises.
get_cids_from_cipherstore_Empty(ok, r) == {}
get_cids_from_cipherstore_FailFull(ok, r) ==
    IF ok THEN CidsOnB(r) ELSE DOMAIN B_ciphers[r]
get_cids_from_cipherstore(ok, r) == IF ok THEN CidsOnB(r) ELSE {}

\* lines 140 / 32: `if cid_e in existing_set: continue`.
IsMissing_Always(c, existing) == TRUE
IsMissing(c, existing) == c \notin existing

\* line 148: existing_set.add(cid_e).
AddPosted_Forgets(existing, c) == existing
AddPosted(existing, c) == existing \cup {c}

\* lines 105-106: root = info[2]; cid = info[3] (0-based).
InfoRoot_RoundId(info) == info[2]
InfoRoot(info) == info[3]
InfoCid(info) == info[4]

\* line 127: the receipt is awaited right after the broadcast.
AfterRegSend_NoWait == "list_src"
AfterRegSend == "reg_wait"

\* lines 128-131 (relayer_full), 104-108 (relayer_runner): after the
\* registry receipt relayer_full goes on to the ciphers, relayer_runner
\* to the watermark.
AfterRegWait_SkipCiphers(prog) == "advance"
AfterRegWait(prog) == IF prog = "full" THEN "list_src" ELSE "advance"

\* lines 138, 152: the statement after the for loop is the watermark update.
AfterRecord(i, cs) == IF i + 1 > Len(cs) THEN "advance" ELSE "loop"

\* lines 115, 125 (dkgB, w3B) and 35, 45 (csB, w3B): the ledger whose
\* contract builds a transaction and whose node it is sent to.
Ledger_Source(kind) == "A"
Ledger(kind) == "B"

\* A transaction as broadcast: the contract function, its arguments and the
\* ledger it is sent to.
Tx(kind, r, c, rt) ==
    [kind |-> kind, round |-> r, cid |-> c, root |-> rt, to |-> Ledger(kind)]

\* A cycle begins when the loop body is entered: the history of the cycle
\* before it is dropped.
BeginCycle ==
    /\ wm0' = last_seen
    /\ subs' = <<>>
    /\ regReceipt' = FALSE
    /\ dst0' = NoListing
    /\ raisedAt' = NotRaised
    /\ reverted' = {}

\* The cipher pass of round r has run to its end when the loop is left.
PassEnds(nextpc, r) ==
    hiPass' = IF nextpc = "advance" THEN Max(hiPass, r) ELSE hiPass

\* ------------------------------------------------------------------ Init
\* Freshly deployed chains, the relayer process about to start.
Init ==
    /\ program \in Programs
    /\ pc = "init"
    /\ last_seen = 0
    /\ rA = 0
    /\ root = NoValue /\ cid = NoCid
    /\ ciphers = <<>>
    /\ existing_set = {}
    /\ idx = 0
    /\ A_lastRound = 0
    /\ A_ciphers = [r \in Rounds |-> <<>>]
    /\ B_lastRound = 0
    /\ B_rounds = [r \in Rounds |-> NoRound]
    /\ B_ciphers = [r \in Rounds |-> [c \in Cids |-> 0]]
    /\ wm0 = 0
    /\ subs = <<>>
    /\ regReceipt = FALSE
    /\ dst0 = NoListing
    /\ raisedAt = NotRaised
    /\ reverted = {}
    /\ passSnap = NoPass
    /\ hiPass = 0
    /\ pendingRound = 0
    /\ skipped = {}
    /\ startRead = "none"
    /\ exit = NotExited
    /\ mempool = {}
    /\ receipt = FALSE
    /\ ROUND = 0 /\ nonce = 0 /\ n0 = 0

\* ------------------------------------------------------------ chain A
\* A poster registers the next round on chain A (compute_next_round: last+1).
SrcRegister ==
    /\ A_lastRound < MaxRound
    /\ A_lastRound' = A_lastRound + 1
    /\ UNCHANGED <<script, program, exit, txpool, startRead, pc, last_seen, rA, locals, A_ciphers, chainB,
                   cycleHist, runHist>>

\* A participant posts a cipher for the current round on chain A.  The
\* CipherStore does not reject a cid it already holds.
SrcPostCipher ==
    \E r \in {A_lastRound} \ {0}, c \in Cids :
        /\ Len(A_ciphers[r]) < MaxCiphers
        /\ A_ciphers' = [A_ciphers EXCEPT ![r] = Append(@, c)]
        /\ UNCHANGED <<script, program, exit, txpool, startRead, pc, last_seen, rA, locals, A_lastRound, chainB,
                       cycleHist, runHist>>

\* -------------------------------------------------------------- startup
\* lines 86-89: last_seen = dkgB.lastRound(), 0 when the call raises.
Startup ==
    /\ pc = "init"
    /\ \E ok \in BOOLEAN :
        /\ last_seen' = InitialWatermark(ok)
        /\ startRead' = IF ok THEN "ok" ELSE "failed"
    /\ wm0' = last_seen'
    /\ pc' = "poll"
    /\ UNCHANGED <<script, program, exit, txpool, rA, locals, chainA, chainB,
                   subs, regReceipt, dst0, raisedAt, reverted, runHist>>

\* lines 55-78: a variable main() needs is not set; the process ends before
\* any contract object exists.
StartupMissing ==
    /\ pc = "init"
    /\ \E unset \in SUBSET ConfigKeys :
        /\ unset \cap RequiredKeys(program) # {}
        /\ exit' = ExitOf(unset)
    /\ pc' = "exited"
    /\ UNCHANGED <<script, program, txpool, startRead, last_seen, rA, locals, chainA, chainB,
                   cycleHist, runHist>>

\* ----------------------------------------------------------------- loop
\* lines 100-101: rA = dkgA.lastRound() returned v; `if rA > last_seen`.
\* The locals of the previous iteration are dead from here on.
PollRead(v) ==
    /\ pc = "poll"
    /\ rA' = v
    /\ pc' = IF IsNewRound(v, last_seen) THEN "getinfo" ELSE "sleep"
    /\ skipped' = IF IsNewRound(v, last_seen)
                     THEN skipped \cup {r \in Rounds : last_seen < r /\ r < v}
                     ELSE skipped
    /\ root' = NoValue /\ cid' = NoCid
    /\ ciphers' = <<>> /\ existing_set' = {} /\ idx' = 0
    /\ startRead' = "none"
    /\ UNCHANGED <<script, program, exit, txpool, last_seen, chainA, chainB, cycleHist,
                   passSnap, hiPass, pendingRound>>

\* The read returns chain A's current lastRound.
Poll == PollRead(A_lastRound)

\* The read returns an earlier value of chain A's lastRound (a node that
\* lags behind).
PollStale == \E v \in 0..(A_lastRound - 1) : PollRead(v)

\* lines 104-106: info = dkgA.getRoundInfo(rA); root = info[2]; cid = info[3].
GetInfo ==
    /\ pc = "getinfo"
    /\ LET info == RoundInfo(TargetRound(rA, last_seen)) IN
        /\ root' = InfoRoot(info)
        /\ cid' = InfoCid(info)
    /\ pc' = "reg_send"
    /\ UNCHANGED <<script, program, exit, txpool, startRead, last_seen, rA, ciphers, existing_set, idx,
                   chainA, chainB, cycleHist, runHist>>

\* lines 115-126: build, sign and broadcast registerRound(rA, root, cid).
\* The transaction is mined: chain B applies it, or rejects it.  A pending
\* transaction of the relayer has the same nonce and is dropped by that.
RegSend ==
    /\ pc = "reg_send"
    /\ LET r == TargetRound(rA, last_seen) IN
        /\ subs' = Append(subs, Tx("registerRound", r, cid, root))
        /\ IF RegisterAccepted(r)
              THEN /\ B_rounds' = [B_rounds EXCEPT ![r] = <<root, cid>>]
                   /\ B_lastRound' = r
                   /\ reverted' = reverted
              ELSE /\ UNCHANGED <<B_rounds, B_lastRound>>
                   /\ reverted' = reverted \cup {Tx("registerRound", r, cid, root)}
    /\ mempool' = {}
    /\ receipt' = TRUE
    /\ pc' = AfterRegSend
    /\ UNCHANGED <<script, program, exit, startRead, last_seen, rA, locals, chainA, B_ciphers,
                   wm0, regReceipt, dst0, raisedAt, runHist>>

\* lines 127-128: wait_for_transaction_receipt returns.  The receipt's
\* status is not read.
RegWait ==
    /\ pc = "reg_wait"
    /\ receipt
    /\ regReceipt' = TRUE
    /\ pc' = AfterRegWait(program)
    /\ UNCHANGED <<script, program, exit, txpool, startRead, last_seen, rA, locals, chainA, chainB,
                   wm0, subs, dst0, raisedAt, reverted, runHist>>

\* line 131: ciphers = csA.getCiphers(rA).
ListSrc ==
    /\ pc = "list_src"
    /\ ciphers' = GetCiphersA(TargetRound(rA, last_seen))
    /\ pc' = "list_dst"
    /\ UNCHANGED <<script, program, exit, txpool, startRead, last_seen, rA, root, cid, existing_set, idx,
                   chainA, chainB, cycleHist, runHist>>

\* lines 134-135: existing_set = set(get_cids_from_cipherstore(csB, rA)).
\* The call inside may raise; get_cids_from_cipherstore does not.
ListDst ==
    /\ pc = "list_dst"
    /\ \E ok \in BOOLEAN :
        /\ existing_set' = get_cids_from_cipherstore(ok, TargetRound(rA, last_seen))
        /\ dst0' = <<IF ok THEN "ok" ELSE "failed", existing_set'>>
    /\ idx' = 1
    /\ pc' = IF Len(ciphers) = 0 THEN "advance" ELSE "loop"
    /\ PassEnds(pc', TargetRound(rA, last_seen))
    /\ UNCHANGED <<script, program, exit, txpool, startRead, last_seen, rA, root, cid, ciphers, chainA, chainB,
                   wm0, subs, regReceipt, raisedAt, reverted, passSnap, pendingRound, skipped>>

\* lines 138-142: a record whose cid is in existing_set is skipped.
SkipRecord ==
    /\ pc = "loop"
    /\ ~IsMissing(ciphers[idx][3], existing_set)
    /\ idx' = idx + 1
    /\ pc' = AfterRecord(idx, ciphers)
    /\ PassEnds(pc', TargetRound(rA, last_seen))
    /\ UNCHANGED <<script, program, exit, txpool, startRead, last_seen, rA, root, cid, ciphers, existing_set,
                   chainA, chainB, cycleHist, passSnap, pendingRound, skipped>>

\* lines 143-144, 31-45: post_cipher_if_missing builds, signs and broadcasts
\* postCipher(rA, cid_e, root_e); the transaction is mined and chain B
\* appends the record.
PostSend ==
    /\ pc = "loop"
    /\ IsMissing(ciphers[idx][3], existing_set)
    /\ LET r == TargetRound(rA, last_seen)
           c == ciphers[idx][3] IN
        /\ B_ciphers[r][c] < MaxPosts
        /\ B_ciphers' = [B_ciphers EXCEPT ![r][c] = @ + 1]
        /\ subs' = Append(subs, Tx("postCipher", r, c, ciphers[idx][4]))
    /\ mempool' = {}
    /\ receipt' = TRUE
    /\ pc' = "post_wait"
    /\ UNCHANGED <<script, program, exit, startRead, last_seen, rA, locals, chainA, B_lastRound, B_rounds,
                   wm0, regReceipt, dst0, raisedAt, reverted, runHist>>

\* lines 46-47, 145-148: the receipt arrives, status "posted"; the cid is
\* added to existing_set.
PostWait ==
    /\ pc = "post_wait"
    /\ receipt
    /\ existing_set' = AddPosted(existing_set, ciphers[idx][3])
    /\ idx' = idx + 1
    /\ pc' = AfterRecord(idx, ciphers)
    /\ PassEnds(pc', TargetRound(rA, last_seen))
    /\ UNCHANGED <<script, program, exit, txpool, startRead, last_seen, rA, root, cid, ciphers, chainA, chainB,
                   cycleHist, passSnap, pendingRound, skipped>>

\* lines 152-153: last_seen = rA.
Advance ==
    /\ pc = "advance"
    /\ last_seen' = rA
    /\ passSnap' = IF program = "full"
                      THEN <<TargetRound(rA, last_seen), ciphers>>
                      ELSE passSnap
    /\ pendingRound' = 0
    /\ pc' = "sleep"
    /\ UNCHANGED <<script, program, exit, txpool, startRead, rA, locals, chainA, chainB, cycleHist, hiPass, skipped>>

\* line 161: time.sleep(poll), then the next iteration.
SleepPoll ==
    /\ pc = "sleep"
    /\ pc' = "poll"
    /\ BeginCycle
    /\ UNCHANGED <<script, program, exit, txpool, startRead, last_seen, rA, locals, chainA, chainB, runHist>>

\* The positions whose call can raise: the read of lastRound, the read of
\* getRoundInfo, build/sign/broadcast of registerRound, its receipt wait,
\* the source getCiphers, build/sign/broadcast of postCipher, its receipt
\* wait.
Raising == {"poll", "getinfo", "reg_send", "reg_wait", "list_src", "loop", "post_wait"}
CipherSteps == {"list_src", "loop", "post_wait"}

\* lines 156-157: `except Exception` catches whatever the step raised; no
\* assignment to last_seen is on that path.
Fail_AdvancesWatermark ==
    /\ pc \in Raising
    /\ pc = "loop" => IsMissing(ciphers[idx][3], existing_set)
    /\ pendingRound' = IF regReceipt /\ pc \in CipherSteps
                          THEN TargetRound(rA, last_seen) ELSE pendingRound
    /\ pc' = "backoff"
    /\ raisedAt' = pc
    /\ last_seen' = IF pc = "poll" THEN last_seen ELSE rA
    /\ UNCHANGED <<script, program, exit, txpool, startRead, rA, locals, chainA, chainB,
                   wm0, subs, regReceipt, dst0, reverted, passSnap, hiPass, skipped>>

Fail_Uncaught ==
    /\ pc \in Raising
    /\ pc = "loop" => IsMissing(ciphers[idx][3], existing_set)
    /\ pc' = "exited"
    /\ exit' = <<{}, 1, "traceback">>
    /\ raisedAt' = pc
    /\ UNCHANGED <<script, program, txpool, startRead, last_seen, rA, locals, chainA, chainB,
                   wm0, subs, regReceipt, dst0, reverted, runHist>>

Fail_Tolerated ==
    /\ pc \in Raising
    /\ pc = "loop" => IsMissing(ciphers[idx][3], existing_set)
    /\ pendingRound' = IF regReceipt /\ pc \in CipherSteps
                          THEN TargetRound(rA, last_seen) ELSE pendingRound
    /\ pc' = IF pc = "getinfo" THEN "reg_send" ELSE "backoff"
    /\ raisedAt' = pc
    /\ UNCHANGED <<script, program, exit, txpool, startRead, last_seen, rA, locals, chainA, chainB,
                   wm0, subs, regReceipt, dst0, reverted, passSnap, hiPass, skipped>>

Fail ==
    /\ pc \in Raising
    /\ pc = "loop" => IsMissing(ciphers[idx][3], existing_set)
    /\ pendingRound' = IF regReceipt /\ pc \in CipherSteps
                          THEN TargetRound(rA, last_seen) ELSE pendingRound
    /\ pc' = "backoff"
    /\ raisedAt' = pc
    /\ UNCHANGED <<script, program, exit, txpool, startRead, last_seen, rA, locals, chainA, chainB,
                   wm0, subs, regReceipt, dst0, reverted, passSnap, hiPass, skipped>>

\* lines 158-159: time.sleep(backoff); continue.
SleepBackoff ==
    /\ pc = "backoff"
    /\ pc' = "poll"
    /\ BeginCycle
    /\ UNCHANGED <<script, program, exit, txpool, startRead, last_seen, rA, locals, chainA, chainB, runHist>>

\* The process is killed and started again: main() runs from the top and
\* every local is lost.
Restart ==
    /\ pc # "init"
    /\ pc' = "init"
    /\ last_seen' = 0 /\ rA' = 0
    /\ root' = NoValue /\ cid' = NoCid
    /\ ciphers' = <<>> /\ existing_set' = {} /\ idx' = 0
    /\ wm0' = 0 /\ subs' = <<>> /\ regReceipt' = FALSE /\ dst0' = NoListing
    /\ raisedAt' = NotRaised /\ reverted' = {}
    /\ startRead' = "none"
    /\ exit' = NotExited
    /\ UNCHANGED <<script, program, txpool, chainA, chainB, runHist>>

\* -------------------------------------------------------- specifications
Next ==
    \/ SrcRegister
    \/ SrcPostCipher
    \/ Startup
    \/ Poll
    \/ GetInfo
    \/ RegSend
    \/ RegWait
    \/ ListSrc
    \/ ListDst
    \/ SkipRecord
    \/ PostSend
    \/ PostWait
    \/ Advance
    \/ SleepPoll
    \/ Fail
    \/ SleepBackoff
    \/ Restart

Spec == Init /\ [][Next]_vars

\* Spec, with reads of chain A's lastRound that may be stale.
NextStale == Next \/ PollStale

StaleSpec == Init /\ [][NextStale]_vars

\* ------------------------------------------------ slow mining on chain B
\* The nonce of a transaction is w3B.eth.get_transaction_count(sender)
\* (lines 117, 37): the number of the sender's transactions mined so far.
\* A transaction that is pending leaves that number as it is, so every
\* transaction built while another is pending carries the nonce of that one;
\* the node takes it in place of or next to the pending one when its
\* gasPrice (read anew at lines 119, 39) allows, else the broadcast raises
\* (Fail).  Of transactions with one nonce one is mined and the others are
\* dropped.

\* lines 115-126, the transaction stays pending.
RegSendPending ==
    /\ pc = "reg_send"
    /\ LET t == Tx("registerRound", TargetRound(rA, last_seen), cid, root) IN
        /\ t \notin mempool
        /\ Cardinality(mempool) < MaxPending
        /\ subs' = Append(subs, t)
        /\ mempool' = mempool \cup {t}
    /\ receipt' = FALSE
    /\ pc' = AfterRegSend
    /\ UNCHANGED <<script, program, exit, startRead, last_seen, rA, locals, chainA, chainB,
                   wm0, regReceipt, dst0, raisedAt, reverted, runHist>>

\* lines 31-45, the transaction stays pending.
PostSendPending ==
    /\ pc = "loop"
    /\ IsMissing(ciphers[idx][3], existing_set)
    /\ LET t == Tx("postCipher", TargetRound(rA, last_seen), ciphers[idx][3],
                   ciphers[idx][4]) IN
        /\ t \notin mempool
        /\ Cardinality(mempool) < MaxPending
        /\ subs' = Append(subs, t)
        /\ mempool' = mempool \cup {t}
    /\ receipt' = FALSE
    /\ pc' = "post_wait"
    /\ UNCHANGED <<script, program, exit, startRead, last_seen, rA, locals, chainA, chainB,
                   wm0, regReceipt, dst0, raisedAt, reverted, runHist>>

\* Chain B mines a pending transaction; the receipt the relayer waits for
\* exists when it is the one broadcast last.
Mine ==
    \E t \in mempool :
        /\ IF t.kind = "registerRound"
              THEN /\ IF RegisterAccepted(t.round)
                         THEN /\ B_rounds' = [B_rounds EXCEPT ![t.round] = <<t.root, t.cid>>]
                              /\ B_lastRound' = t.round
                              /\ reverted' = reverted
                         ELSE /\ UNCHANGED <<B_rounds, B_lastRound>>
                              /\ reverted' = IF t \in Range(subs)
                                                 THEN reverted \cup {t}
                                                 ELSE reverted
                   /\ UNCHANGED B_ciphers
              ELSE /\ B_ciphers[t.round][t.cid] < MaxPosts
                   /\ B_ciphers' = [B_ciphers EXCEPT ![t.round][t.cid] = @ + 1]
                   /\ UNCHANGED <<B_rounds, B_lastRound, reverted>>
        /\ mempool' = {}
        /\ receipt' = IF subs # <<>> /\ subs[Len(subs)] = t THEN TRUE ELSE receipt
        /\ UNCHANGED <<script, program, exit, startRead, pc, last_seen, rA, locals, chainA,
                       wm0, subs, regReceipt, dst0, raisedAt, runHist>>

NextPending ==
    \/ Next
    \/ RegSendPending
    \/ PostSendPending
    \/ Mine

PendingSpec == Init /\ [][NextPending]_vars

\* Spec, with processes started in an environment that lacks a variable.
NextConfig == Next \/ StartupMissing

ConfigSpec == Init /\ [][NextConfig]_vars

\* Spec, with the loop scheduled fairly: a killed process is started again,
\* a sleep ends, a local step is taken, a call that never returns raises
\* (weak fairness), and a remote call that is made again and again does not
\* raise every time (strong fairness).
LoopFairness ==
    /\ WF_vars(Startup) /\ WF_vars(SleepPoll) /\ WF_vars(SleepBackoff)
    /\ WF_vars(ListDst) /\ WF_vars(SkipRecord) /\ WF_vars(Advance)
    /\ WF_vars(Fail)
    /\ SF_vars(Poll) /\ SF_vars(GetInfo) /\ SF_vars(RegSend) /\ SF_vars(RegWait)
    /\ SF_vars(ListSrc) /\ SF_vars(PostSend) /\ SF_vars(PostWait)

FairSpec == Spec /\ LoopFairness

\* FairSpec, where chain A registers its next round only once the relayer's
\* latest read of lastRound() has returned the current one: every value of
\* the round counter is observed before the next one appears.
SrcRegisterObserved ==
    /\ A_lastRound = 0 \/ rA = A_lastRound
    /\ SrcRegister

NextObserved ==
    \/ SrcRegisterObserved
    \/ SrcPostCipher
    \/ Startup
    \/ Poll
    \/ GetInfo
    \/ RegSend
    \/ RegWait
    \/ ListSrc
    \/ ListDst
    \/ SkipRecord
    \/ PostSend
    \/ PostWait
    \/ Advance
    \/ SleepPoll
    \/ Fail
    \/ SleepBackoff
    \/ Restart

ObservedSpec == Init /\ [][NextObserved]_vars /\ LoopFairness

\* One round on chain A whose records no longer change, chain B holding any
\* set of cids for it (posted there by anyone), relayer_full about to start.
InitPass ==
    /\ program = "full"
    /\ pc = "init"
    /\ last_seen = 0
    /\ rA = 0
    /\ root = NoValue /\ cid = NoCid
    /\ ciphers = <<>>
    /\ existing_set = {}
    /\ idx = 0
    /\ A_lastRound = 1
    /\ \E src \in SeqsUpTo(PassLen, PassCids) :
          A_ciphers = [r \in Rounds |-> IF r = 1 THEN src ELSE <<>>]
    /\ B_lastRound = 0
    /\ B_rounds = [r \in Rounds |-> NoRound]
    /\ \E held \in SUBSET PassCids :
          B_ciphers = [r \in Rounds |->
                          [c \in PassCids |-> IF r = 1 /\ c \in held THEN 1 ELSE 0]]
    /\ wm0 = 0
    /\ subs = <<>>
    /\ regReceipt = FALSE
    /\ dst0 = NoListing
    /\ raisedAt = NotRaised
    /\ reverted = {}
    /\ passSnap = NoPass
    /\ hiPass = 0
    /\ pendingRound = 0
    /\ skipped = {}
    /\ startRead = "none"
    /\ exit = NotExited
    /\ mempool = {}
    /\ receipt = FALSE
    /\ ROUND = 0 /\ nonce = 0 /\ n0 = 0

NextPass ==
    \/ Startup
    \/ Poll
    \/ GetInfo
    \/ RegSend
    \/ RegWait
    \/ ListSrc
    \/ ListDst
    \/ SkipRecord
    \/ PostSend
    \/ PostWait
    \/ Advance
    \/ SleepPoll
    \/ Restart

PassSpec == InitPass /\ [][NextPass]_vars

\* PassSpec, with calls that may raise.
NextPassFail ==
    \/ NextPass
    \/ Fail
    \/ SleepBackoff

PassFailSpec == InitPass /\ [][NextPassFail]_vars

\* ------------------------------------------- copy_ciphers_A_to_B.py
\* lines 33-35: poster, rid, cid, root, ts = entry; postCipher(rid, cid, root)
\* with the nonce of line 37.
CopyTx(entry, n) ==
    [kind |-> "postCipher", round |-> entry[2], cid |-> entry[3],
     root |-> entry[4], nonce |-> n]

\* line 51: nonce += 1.
NextNonce_Same(n) == n
NextNonce(n) == n + 1

\* line 32: the for loop ends after the last entry; line 55 follows.
AfterEntry(i, cs) == IF i + 1 > Len(cs) THEN "copy_done" ELSE "copy_send"

\* The positions of the script whose call can raise: getCiphers, the reads
\* of lines 28-30, build/sign/broadcast, the receipt wait (timeout=120).
CopyRaising == {"copy_list", "copy_nonce", "copy_send", "copy_wait"}

\* One round on chain A whose records no longer change, chain B holding any
\* set of cids for it, the script about to start.
InitCopy ==
    /\ program = "copy"
    /\ pc = "init"
    /\ last_seen = 0
    /\ rA = 0
    /\ root = NoValue /\ cid = NoCid
    /\ ciphers = <<>>
    /\ existing_set = {}
    /\ idx = 0
    /\ ROUND \in Rounds
    /\ A_lastRound = ROUND
    /\ \E src \in SeqsUpTo(PassLen, PassCids) :
          A_ciphers = [r \in Rounds |-> IF r = ROUND THEN src ELSE <<>>]
    /\ B_lastRound = 0
    /\ B_rounds = [r \in Rounds |-> NoRound]
    /\ \E held \in SUBSET PassCids :
          B_ciphers = [r \in Rounds |->
                          [c \in PassCids |-> IF r = ROUND /\ c \in held THEN 1 ELSE 0]]
    /\ wm0 = 0
    /\ subs = <<>>
    /\ regReceipt = FALSE
    /\ dst0 = NoListing
    /\ raisedAt = NotRaised
    /\ reverted = {}
    /\ passSnap = NoPass
    /\ hiPass = 0
    /\ pendingRound = 0
    /\ skipped = {}
    /\ startRead = "none"
    /\ exit = NotExited
    /\ mempool = {}
    /\ receipt = FALSE
    /\ nonce = 0 /\ n0 = 0

\* lines 5-18: the environment is read; without PRIVATE_KEY the script ends
\* by SystemExit with a message (status 1).
CopyStart ==
    /\ pc = "init"
    /\ \E keySet \in BOOLEAN :
        /\ pc' = IF keySet THEN "copy_list" ELSE "exited"
        /\ exit' = IF keySet THEN exit
                   ELSE <<{"PRIVATE_KEY"}, 1, "Set PRIVATE_KEY in env before running.">>
    /\ UNCHANGED <<script, program, txpool, startRead, last_seen, rA, locals,
                   chainA, chainB, cycleHist, runHist>>

\* line 20: ciphers = cA.functions.getCiphers(ROUND).call().
CopyList ==
    /\ pc = "copy_list"
    /\ ciphers' = GetCiphersA(ROUND)
    /\ pc' = "copy_nonce"
    /\ UNCHANGED <<script, program, exit, txpool, startRead, last_seen, rA,
                   root, cid, existing_set, idx, chainA, chainB, cycleHist, runHist>>

\* lines 26-32: nonce = B.eth.get_transaction_count(sender), read as n; the
\* for loop is entered.
CopyReadNonce ==
    /\ pc = "copy_nonce"
    /\ \E n \in 0..MaxNonce0 :
        /\ nonce' = n
        /\ n0' = n
    /\ idx' = 1
    /\ pc' = IF Len(ciphers) = 0 THEN "copy_done" ELSE "copy_send"
    /\ UNCHANGED <<ROUND, program, exit, txpool, startRead, last_seen, rA,
                   root, cid, ciphers, existing_set, chainA, chainB, cycleHist, runHist>>

\* lines 33-48: build postCipher(rid, cid, root) with the nonce, sign and
\* broadcast it.
CopySend ==
    /\ pc = "copy_send"
    /\ LET t == CopyTx(ciphers[idx], nonce) IN
        /\ subs' = Append(subs, t)
        /\ mempool' = mempool \cup {t}
    /\ receipt' = FALSE
    /\ pc' = "copy_wait"
    /\ UNCHANGED <<script, program, exit, startRead, last_seen, rA, locals,
                   chainA, chainB, wm0, regReceipt, dst0, raisedAt, reverted, runHist>>

\* Chain B mines the transaction: the CipherStore appends the record, or
\* rejects it (the ledger neither promises to accept nor to reject a cid it
\* holds); either way a receipt exists.
CopyMine ==
    \E t \in mempool, ok \in BOOLEAN :
        /\ IF ok
              THEN /\ B_ciphers' = [B_ciphers EXCEPT ![t.round][t.cid] = @ + 1]
                   /\ reverted' = reverted
              ELSE /\ B_ciphers' = B_ciphers
                   /\ reverted' = reverted \cup {t}
        /\ mempool' = mempool \ {t}
        /\ receipt' = TRUE
        /\ UNCHANGED <<script, program, exit, startRead, pc, last_seen, rA, locals,
                       chainA, B_lastRound, B_rounds,
                       wm0, subs, regReceipt, dst0, raisedAt, runHist>>

\* lines 49-52: the receipt arrives; its status is printed; nonce += 1; the
\* loop goes to the next entry.
CopyWait ==
    /\ pc = "copy_wait"
    /\ receipt
    /\ nonce' = NextNonce(nonce)
    /\ idx' = idx + 1
    /\ pc' = AfterEntry(idx, ciphers)
    /\ UNCHANGED <<ROUND, n0, program, exit, txpool, startRead, last_seen, rA,
                   root, cid, ciphers, existing_set, chainA, chainB, cycleHist, runHist>>

\* A call raises: nothing in the script catches it, the interpreter prints
\* the traceback and ends with status 1.
CopyFail ==
    /\ pc \in CopyRaising
    /\ raisedAt' = pc
    /\ pc' = "exited"
    /\ exit' = <<{}, 1, "traceback">>
    /\ UNCHANGED <<script, program, txpool, startRead, last_seen, rA, locals,
                   chainA, chainB, wm0, subs, regReceipt, dst0, reverted, runHist>>

\* line 55: print('Done.'); the script ends with status 0.
CopyDone ==
    /\ pc = "copy_done"
    /\ pc' = "exited"
    /\ exit' = <<{}, 0, "Done.">>
    /\ UNCHANGED <<script, program, txpool, startRead, last_seen, rA, locals,
                   chainA, chainB, cycleHist, runHist>>

NextCopy ==
    \/ CopyStart
    \/ CopyList
    \/ CopyReadNonce
    \/ CopySend
    \/ CopyMine
    \/ CopyWait
    \/ CopyFail
    \/ CopyDone

CopySpec == InitCopy /\ [][NextCopy]_vars

\* ----------------------------------------------------------- properties
\* The cids of a list of CipherStore entries, in order.
EntryCids(cs) == [i \in 1..Len(cs) |-> cs[i][3]]

\* The cids of the postCipher transactions of a log, in order.
PostedCids(log) ==
    LET posts == SelectSeq(log, LAMBDA t : t.kind = "postCipher")
    IN  [i \in 1..Len(posts) |-> posts[i].cid]

\* The cids of s that are not in S, each once, in the order of their first
\* occurrence in s.
RECURSIVE MissingInOrder(_, _)
MissingInOrder(s, S) ==
    IF s = <<>> THEN <<>>
    ELSE IF Head(s) \in S THEN MissingInOrder(Tail(s), S)
    ELSE <<Head(s)>> \o MissingInOrder(Tail(s), S \cup {Head(s)})

\* C1: in the loop, the watermark changes only to the candidate rA of the
\* current cycle, and only once the registerRound(rA) transaction was
\* broadcast and its receipt received and, in relayer_full, the loop over
\* the source records has run to its end with every record's cid on chain B
\* as far as the relayer knows and every postCipher it broadcast confirmed.
C1_WatermarkOnlyAfterMirror ==
    [][ (last_seen' # last_seen /\ pc # "init" /\ pc' # "init") =>
            /\ last_seen' = rA
            /\ rA > wm0
            /\ regReceipt
            /\ Len(subs) >= 1
            /\ subs[1].kind = "registerRound" /\ subs[1].round = rA
            /\ program = "full" =>
                /\ idx = Len(ciphers) + 1
                /\ Range(EntryCids(ciphers)) \subseteq existing_set
                /\ Range(PostedCids(subs)) \subseteq existing_set
      ]_vars

\* A cycle of relayer_full that posted a cipher has advanced the watermark.
C1_Witness ==
    /\ program = "full"
    /\ pc = "sleep"
    /\ last_seen = rA /\ last_seen > wm0
    /\ Len(PostedCids(subs)) >= 1

C3_NoOpUnlessNewer ==
    /\ rA <= wm0 => (subs = <<>> /\ last_seen = wm0)
    /\ subs # <<>> => rA > wm0

\* The round was mirrored before and is read again: nothing is sent.
C3_Witness ==
    /\ pc = "sleep"
    /\ rA = wm0 /\ rA > 0
    /\ rA \in RegisteredOnB
    /\ subs = <<>>

\* In a cycle of relayer_full that reached the watermark update, with the
\* listing of chain B answered and its cids all among the source's.
PassCompleted ==
    /\ program = "full"
    /\ pc = "advance"
    /\ dst0[1] = "ok"
    /\ dst0[2] \subseteq Range(EntryCids(ciphers))

\* C4 as stated: N - |S| postCipher transactions.
C4_Original ==
    PassCompleted =>
        /\ Len(PostedCids(subs)) = Len(ciphers) - Cardinality(dst0[2])
        /\ CidsOnB(rA) = Range(EntryCids(ciphers))

\* C4, amended: an error-free cipher pass over source records whose listing
\* of chain B gave the cid set S, S within the source cids, broadcasts one
\* postCipher for each distinct source cid not in S, in the order of the
\* first record of each in the source list (N - |S| of them when the N
\* source cids are pairwise distinct), and chain B's cid set for the round
\* is then the source cid set.
C4_MirrorsMissingInOrder ==
    PassCompleted =>
        /\ PostedCids(subs) = MissingInOrder(EntryCids(ciphers), dst0[2])
        /\ Len(PostedCids(subs)) = Cardinality(Range(EntryCids(ciphers)) \ dst0[2])
        /\ (Cardinality(Range(EntryCids(ciphers))) = Len(ciphers) =>
               Len(PostedCids(subs)) = Len(ciphers) - Cardinality(dst0[2]))
        /\ \A i \in 1..Len(subs) : subs[i].round = rA
        /\ CidsOnB(rA) = Range(EntryCids(ciphers))

\* Source c1, c2, c3 with c2 on chain B: c1 then c3 were posted.
C4_Witness ==
    /\ PassCompleted
    /\ EntryCids(ciphers) = <<"c1", "c2", "c3">>
    /\ dst0[2] = {"c2"}
    /\ PostedCids(subs) = <<"c1", "c3">>
    /\ CidsOnB(rA) = {"c1", "c2", "c3"}

C6_Original == <>[](RegisteredOnB = 1..A_lastRound)

\* C6, the same conclusion under FairSpec when no poll ever compares a
\* candidate more than one above the watermark.
C6_EventuallyMirrored ==
    ([](skipped = {})) => <>[](RegisteredOnB = 1..A_lastRound)

\* C7 as stated: a process started after a cycle of round r raised past its
\* registry receipt begins to poll with a watermark below r.
C7_Original ==
    (pc = "poll" /\ rA = 0 /\ pendingRound # 0) => last_seen < pendingRound

SetMax(S) == CHOOSE x \in S : \A y \in S : y <= x

\* Round r is on chain B with every cid chain A holds for it.
FullyOnB(r) ==
    /\ r \in RegisteredOnB
    /\ program = "full" => Range(A_ciphers[r]) \subseteq CidsOnB(r)

\* The highest round whose mirroring ran to its end or that chain B holds
\* in full.
HighestMirrored == SetMax({0, hiPass} \cup {r \in Rounds : FullyOnB(r)})

\* C9 as stated: the watermark never exceeds the highest fully mirrored
\* round.
C9_Original == pc # "init" => last_seen <= HighestMirrored

\* C8: no transaction is ever broadcast for a round that a poll jumped over
\* (a round strictly between the watermark and the candidate of that poll).
C8_SkippedNeverMirrored ==
    \A i \in 1..Len(subs) : subs[i].round \notin skipped

\* A cycle went from watermark rA - 2 straight to rA and mirrored it, with a
\* cipher; round rA - 1 is not on chain B.
C8_Witness ==
    /\ pc = "sleep"
    /\ last_seen = rA /\ rA > wm0 + 1
    /\ rA - 1 \in skipped
    /\ rA - 1 \notin RegisteredOnB
    /\ Len(PostedCids(subs)) >= 1

\* C10: every postCipher broadcast in a cycle comes after the registerRound
\* of the same round broadcast first in that cycle, whose receipt has been
\* received; the round is then in chain B's registry.
C10_RegistryBeforeCiphers ==
    \A i \in 1..Len(subs) :
        subs[i].kind = "postCipher" =>
            /\ i > 1
            /\ subs[1] = Tx("registerRound", subs[i].round, MetaOf(subs[i].round),
                                     RootOf(subs[i].round))
            /\ regReceipt
            /\ subs[i].round \in RegisteredOnB

\* A postCipher has just been broadcast.
C10_Witness ==
    /\ pc = "post_wait"
    /\ subs[Len(subs)].kind = "postCipher"
    /\ regReceipt

\* The cycle raised while record idx of the batch was being posted.
PostRaised ==
    /\ pc = "backoff"
    /\ regReceipt
    /\ idx >= 1

\* C11 as stated: when the post of one record raises, every later record of
\* the batch whose cid is missing is still submitted, and the watermark is
\* not advanced.
C11_Original ==
    PostRaised =>
        /\ last_seen = wm0
        /\ \A j \in (idx + 1)..Len(ciphers) :
              IsMissing(ciphers[j][3], existing_set \cup {ciphers[idx][3]}) =>
                  ciphers[j][3] \in Range(PostedCids(subs))

\* C12: a process that has started and not polled yet is in the loop, with
\* the watermark equal to chain B's lastRound() when that read returned and
\* equal to 0 when it raised.
C12_StartupWatermark ==
    /\ pc = "init" => startRead = "none"
    /\ startRead # "none" => pc \in {"poll", "backoff"}
    /\ startRead = "ok" => last_seen = B_lastRound
    /\ startRead = "failed" => last_seen = 0

\* The read at start raised with rounds on chain B, and the loop is entered.
C12_Witness ==
    /\ startRead = "failed"
    /\ pc = "poll"
    /\ B_lastRound > 0
    /\ last_seen = 0

\* C13: when the listing of chain B raises, the relayer goes on with an
\* empty cid set: the cycle is not aborted by it, a cycle that reaches its
\* end has broadcast a postCipher for every distinct source cid, in source
\* order, and has then advanced the watermark to the round.
C13_FailedListingIsEmpty ==
    dst0[1] = "failed" =>
        /\ dst0[2] = {}
        /\ pc \in {"loop", "post_wait", "advance", "sleep", "backoff"}
        /\ pc = "backoff" => (idx >= 1 /\ idx <= Len(ciphers))
        /\ pc \in {"advance", "sleep"} =>
              /\ PostedCids(subs) = MissingInOrder(EntryCids(ciphers), {})
              /\ Range(EntryCids(ciphers)) \subseteq CidsOnB(rA)
        /\ pc = "sleep" => last_seen = rA

\* The listing raised, every record was posted although chain B held one of
\* them already, and the watermark was advanced.
C13_Witness ==
    /\ dst0[1] = "failed"
    /\ pc = "sleep"
    /\ last_seen = rA
    /\ Len(PostedCids(subs)) >= 2
    /\ \E c \in DOMAIN B_ciphers[rA] : B_ciphers[rA][c] >= 2

\* The variables the ended process needed and did not have.
MissingOf(e) == e[1] \cap RequiredKeys(program)

\* C14 as stated: a process started without a variable it needs has ended
\* before the loop, with a message, a nonzero exit status and no call or
\* submission to a contract.
C14_Original ==
    exit # NotExited =>
        /\ pc = "exited"
        /\ MissingOf(exit) # {}
        /\ exit[2] # 0
        /\ exit[3] \in {"error line", "traceback"}
        /\ subs = <<>> /\ startRead = "none" /\ rA = 0

\* A step of the running loop: everything the process itself can do next.
LoopStep ==
    \/ Poll \/ GetInfo \/ RegSend \/ RegWait \/ ListSrc \/ ListDst
    \/ SkipRecord \/ PostSend \/ PostWait \/ Advance \/ SleepPoll
    \/ Fail \/ SleepBackoff

\* C15: a process ends only at startup; in the loop it always has a next
\* step; a cycle that ends without exception (the candidate was not new, or
\* the watermark was updated) goes to the poll sleep, a step that raises goes
\* to the backoff sleep, either sleep is followed by the next poll, and a
\* poll follows nothing but one sleep or the start.  (A step to "init" is
\* the process being killed and started again from outside.)
C15_LoopNeverTerminates ==
    /\ [](pc \notin {"init", "exited"} => (exit = NotExited /\ ENABLED LoopStep))
    /\ [][ pc' = "exited" => pc \in {"init", "exited"} ]_vars
    /\ [][ (pc \in {"sleep", "backoff"} /\ pc' # pc) => pc' \in {"poll", "init"} ]_vars
    /\ [][ (pc' = "sleep" /\ pc # "sleep") => pc \in {"poll", "advance"} ]_vars
    /\ [][ (pc' = "backoff" /\ pc # "backoff") => pc \in Raising ]_vars
    /\ [][ (pc' = "poll" /\ pc # "poll") => pc \in {"sleep", "backoff", "init"} ]_vars
    /\ [][ (pc \in {"poll", "advance"} /\ pc' # pc) =>
              pc' \in {"getinfo", "sleep", "backoff", "init"} ]_vars

\* The cycle before this one raised while it posted a record, slept the
\* backoff, and the loop is at its next poll.
C15_Witness ==
    /\ pc = "poll"
    /\ subs = <<>>
    /\ idx >= 1 /\ idx <= Len(ciphers)
    /\ last_seen = wm0

\* The registerRound transactions of a log.
Registrations(log) == SelectSeq(log, LAMBDA t : t.kind = "registerRound")

\* C16: a cycle whose candidate rA is above the watermark it began with and
\* that ran to its end has broadcast exactly one registerRound, first, with
\* the arguments (rA, third field, fourth field of chain A's
\* getRoundInfo(rA)), and ends with the watermark equal to rA.
C16_OneRegistration ==
    (pc \in {"advance", "sleep"} /\ rA > wm0) =>
        /\ Len(Registrations(subs)) = 1
        /\ subs[1] = Tx("registerRound", rA, RoundInfo(rA)[4], RoundInfo(rA)[3])
        /\ pc = "sleep" => last_seen = rA

\* relayer_runner has mirrored round 2 from watermark 1: one transaction.
C16_Witness ==
    /\ program = "runner"
    /\ pc = "sleep"
    /\ wm0 = 1 /\ rA = 2 /\ last_seen = 2
    /\ subs = <<Tx("registerRound", 2, MetaOf(2), RootOf(2))>>
    /\ B_rounds[2] = <<RootOf(2), MetaOf(2)>>

\* C17: the registerRound broadcast depends on nothing but the candidate
\* being above the watermark: at the broadcast step it is always possible,
\* whatever chain B's registry holds, and every cycle with such a candidate
\* that got past that step, or ended, has broadcast registerRound(rA, ...)
\* first; a retry for a round chain B already holds broadcasts it again.
C17_NoExistenceCheck ==
    /\ pc \in {"getinfo", "reg_send"} => (rA > wm0 /\ subs = <<>>)
    /\ pc = "reg_send" => ENABLED RegSend
    /\ (rA > wm0 /\ pc \in {"reg_wait", "list_src", "list_dst", "loop",
                             "post_wait", "advance", "sleep"}) =>
          /\ subs # <<>>
          /\ subs[1] = Tx("registerRound", rA, MetaOf(rA), RootOf(rA))

\* The cycle of round rA raised in cipher mirroring after its registry
\* receipt; the retry cycle has broadcast registerRound(rA) again although
\* chain B held the round, and the ledger has rejected it.
C17_Witness ==
    /\ pc = "reg_wait"
    /\ pendingRound = rA
    /\ startRead = "none" /\ wm0 = last_seen /\ rA = wm0 + 1
    /\ subs = <<Tx("registerRound", rA, MetaOf(rA), RootOf(rA))>>
    /\ B_lastRound = rA
    /\ Len(A_ciphers[rA]) >= 1 /\ CidsOnB(rA) = {}

\* C18 as stated: chain B, whose records all come from the relayer, never
\* holds more than one accepted postCipher for a round and a cid.
C18_Original ==
    \A r \in Rounds : \A c \in DOMAIN B_ciphers[r] : B_ciphers[r][c] <= 1

\* C19: in one cycle no cid is broadcast twice; a cid whose postCipher was
\* confirmed is in existing_set, and the records before the loop position
\* all have their cid there, so a later record with that cid is skipped.
C19_OncePerBatch ==
    LET posted == PostedCids(subs) IN
    /\ \A i, j \in 1..Len(posted) : posted[i] = posted[j] => i = j
    /\ pc \in {"loop", "advance"} =>
          /\ Range(posted) \subseteq existing_set
          /\ \A k \in 1..(idx - 1) : ~IsMissing(ciphers[k][3], existing_set)
    /\ pc = "post_wait" =>
          /\ posted[Len(posted)] = ciphers[idx][3]
          /\ Range(SubSeq(posted, 1, Len(posted) - 1)) \subseteq existing_set

\* The source list holds the cid c1 in its first two records and chain B
\* held nothing: the batch has ended with c1 posted once.
C19_Witness ==
    /\ pc = "advance"
    /\ Len(ciphers) = 3
    /\ ciphers[1][3] = "c1" /\ ciphers[2][3] = "c1" /\ ciphers[3][3] = "c2"
    /\ dst0 = <<"ok", {}>>
    /\ PostedCids(subs) = <<"c1", "c2">>
    /\ B_ciphers[rA]["c1"] = 1

\* C20 as stated: at most one transaction of the relayer is broadcast and
\* not mined, so that no two distinct transactions it has broadcast carry
\* the same nonce.
C20_Original == Cardinality(mempool) <= 1

\* C21: a cycle whose candidate is above the watermark and whose
\* getRoundInfo(rA) call raises (a failed read, or a return value that cannot
\* be decoded) goes from that call straight to the backoff sleep: nothing has
\* been built or broadcast in the cycle, chain B changes only with a
\* broadcast, so chain B is as the cycle found it, and the watermark is the
\* one the cycle began with.
C21_RoundInfoFailureAborts ==
    /\ [](pc = "getinfo" => (rA > wm0 /\ subs = <<>> /\ last_seen = wm0))
    /\ [](raisedAt = "getinfo" =>
              /\ pc = "backoff"
              /\ rA > wm0
              /\ subs = <<>> /\ ~regReceipt
              /\ root = NoValue /\ cid = NoCid
              /\ last_seen = wm0)
    /\ [][ (pc = "getinfo" /\ pc' \notin {"getinfo", "reg_send", "init"}) =>
              /\ pc' = "backoff" /\ raisedAt' = "getinfo"
              /\ chainB' = chainB /\ last_seen' = last_seen ]_vars
    /\ [][ chainB' # chainB => Len(subs') = Len(subs) + 1 ]_vars

\* getRoundInfo(2) raised in a cycle that began with watermark 1 and with
\* round 1 on chain B: round 2 is not on chain B.
C21_Witness ==
    /\ raisedAt = "getinfo"
    /\ pc = "backoff"
    /\ wm0 = 1 /\ rA = 2
    /\ RegisteredOnB = {1}
    /\ last_seen = 1

\* C22 as stated: a cycle that has set the watermark to rA leaves chain B
\* holding round rA and every cid the source listed for rA in the cycle, and
\* no transaction of the cycle was mined with a failure status.
C22_Original ==
    (pc = "sleep" /\ last_seen = rA /\ rA > wm0) =>
        /\ rA \in RegisteredOnB
        /\ program = "full" => Range(EntryCids(ciphers)) \subseteq CidsOnB(rA)
        /\ reverted = {}

\* C23: in a running process, whatever chain A's lastRound() reads return
\* (current or stale, in any order), no step lowers the watermark, so every
\* change of it is an increase; the step that completes the mirroring of a
\* round sets the watermark to that round, which is above the watermark held
\* until then.  The watermark is thus at least the round completed last, and
\* the rounds completed in one run have strictly increasing ids.
C23_WatermarkMonotone ==
    /\ [][ pc' # "init" => last_seen' >= last_seen ]_vars
    /\ [][ (pc' # "init" /\ last_seen' # last_seen) => last_seen' > last_seen ]_vars
    /\ [][ (pc = "advance" /\ pc' = "sleep") =>
              (last_seen' = rA /\ rA > last_seen /\ last_seen = wm0) ]_vars
    /\ [](pc \in {"getinfo", "reg_send", "reg_wait", "list_src", "list_dst",
                   "loop", "post_wait", "advance"} => rA > last_seen)

\* A read of lastRound() returned a round below the watermark, after the
\* loop had polled before: the cycle ended with the watermark as it was.
C23_Witness ==
    /\ pc = "sleep"
    /\ startRead = "none"
    /\ rA >= 1 /\ rA < last_seen
    /\ last_seen = wm0
    /\ subs = <<>>

\* C24: a step that changes chain A is a step of chain A's own users: it
\* changes neither the position of the relayer, nor its variables, nor what
\* it has broadcast, nor chain B; so no step of the relayer and no
\* transaction of the relayer changes chain A, in cycles that run to their
\* end and in cycles that raise alike.  Every transaction the relayer has
\* broadcast, mined or pending, was sent to chain B.
C24_SourceReadOnly ==
    /\ [][ chainA' # chainA =>
              /\ pc' = pc /\ last_seen' = last_seen /\ rA' = rA
              /\ locals' = locals /\ subs' = subs
              /\ chainB' = chainB /\ mempool' = mempool ]_vars
    /\ [](\A i \in 1..Len(subs) : subs[i].to = "B")
    /\ [](\A t \in mempool : t.to = "B")

\* A cycle of relayer_full has broadcast registerRound and a postCipher and
\* then raised; chain A holds what the cycle read from it.
C24_Witness ==
    /\ pc = "backoff"
    /\ raisedAt = "post_wait"
    /\ Len(subs) = 2
    /\ subs[2].kind = "postCipher" /\ subs[2].to = "B"
    /\ A_lastRound = rA
    /\ A_ciphers[rA] = EntryCids(ciphers)
    /\ mempool # {}

\* C25: the script broadcasts postCipher for the records of getCiphers(ROUND)
\* one by one in source order, the i-th (from 1) with the arguments of the
\* i-th record and the nonce n0 + i - 1, n0 being the transaction count read
\* once before the first broadcast; chain B's cids are never listed, so a
\* record whose cid chain B holds is posted as well; the nonce is raised, by
\* one, only by the step that follows the receipt of the transaction sent
\* last; a run that ends by itself has posted every record; a call that
\* raises ends the script at once, and an ended script broadcasts nothing.
C25_CopyPostsEveryRecord ==
    /\ [](\A i \in 1..Len(subs) :
              i <= Len(ciphers) /\ subs[i] = CopyTx(ciphers[i], n0 + i - 1))
    /\ [](pc = "copy_send" => (Len(subs) = idx - 1 /\ nonce = n0 + idx - 1))
    /\ [](pc = "copy_wait" => (Len(subs) = idx /\ nonce = n0 + idx - 1))
    /\ []((pc = "copy_done" \/ (pc = "exited" /\ exit[3] = "Done.")) =>
              /\ ciphers = GetCiphersA(ROUND)
              /\ PostedCids(subs) = EntryCids(ciphers)
              /\ raisedAt = NotRaised)
    /\ [](existing_set = {} /\ dst0 = NoListing)
    /\ [][ n0' # n0 => (pc = "copy_nonce" /\ subs = <<>>) ]_vars
    /\ [][ (nonce' # nonce /\ pc # "copy_nonce") =>
              /\ pc = "copy_wait" /\ receipt
              /\ subs[Len(subs)] \notin mempool
              /\ nonce' = nonce + 1 ]_vars
    /\ [](raisedAt # NotRaised => (pc = "exited" /\ exit[2] = 1))
    /\ [][ pc = "exited" => (pc' = "exited" /\ subs' = subs) ]_vars

\* The source listed c1, c2, c1 and chain B held c1; the count read was 2:
\* the script has ended by itself after three broadcasts with the nonces 2,
\* 3 and 4, and chain B holds c1 more than once.
C25_Witness ==
    /\ pc = "exited" /\ exit[3] = "Done."
    /\ EntryCids(ciphers) = <<"c1", "c2", "c1">>
    /\ n0 = 2
    /\ Len(subs) = 3
    /\ subs[1].nonce = 2 /\ subs[2].nonce = 3 /\ subs[3].nonce = 4
    /\ B_ciphers[ROUND]["c1"] >= 2

====
